---- MODULE Spec2Model ----
(***************************************************************************)
(* Papyrological citation resolution (Agora, image/src/GTE).               *)
(*                                                                         *)
(* Python strings are TLA+ strings (sequences of characters): a character  *)
(* is the one-character string SubSeq(s, i, i), positions count from 1,    *)
(* and a "position" p names the next character to read (p = Len(s) + 1 is  *)
(* the end of the string).  Regular expressions are modelled by matchers   *)
(* that return the position after the match, or 0 when there is none.      *)
(***************************************************************************)
EXTENDS Integers, Sequences, FiniteSets, TLC

(***************************************************************************)
(* Characters and the str methods the code uses.  A value that is used     *)
(* more than once is handed to a second operator as a parameter (XAt, XOf) *)
(* rather than named in a LET.                                             *)
(***************************************************************************)
UpperSeq == "ABCDEFGHIJKLMNOPQRSTUVWXYZ"
LowerSeq == "abcdefghijklmnopqrstuvwxyz"

Upper == {"A", "B", "C", "D", "E", "F", "G", "H", "I", "J", "K", "L", "M",
          "N", "O", "P", "Q", "R", "S", "T", "U", "V", "W", "X", "Y", "Z"}
Lower == {"a", "b", "c", "d", "e", "f", "g", "h", "i", "j", "k", "l", "m",
          "n", "o", "p", "q", "r", "s", "t", "u", "v", "w", "x", "y", "z"}
Digit == {"0", "1", "2", "3", "4", "5", "6", "7", "8", "9"}
\* \s of the re module, restricted to the whitespace the inputs contain.
WS == {" ", "\n", "\t"}

Ch(s, p) == IF p >= 1 /\ p <= Len(s) THEN SubSeq(s, p, p) ELSE ""

Min(S) == CHOOSE x \in S : \A y \in S : x <= y

Max(S) == CHOOSE x \in S : \A y \in S : y <= x

\* The least position of S, 0 standing for none.
First(S) == IF S = {} THEN 0 ELSE Min(S)

\* The position after the longest run of characters of class C that starts at p.
SkipWhile(s, p, C) ==
    IF p > Len(s) THEN p
    ELSE Min({q \in p..(Len(s) + 1) : Ch(s, q) \notin C})

\* The first position >= p holding a character of class C (Len(s) + 1 if none).
FindFirst(s, p, C) ==
    IF p > Len(s) THEN p
    ELSE Min({q \in p..(Len(s) + 1) : q = Len(s) + 1 \/ Ch(s, q) \in C})

\* The last position <= p holding a character outside class C (0 if none).
LastOutside(s, p, C) == Max({0} \cup {q \in 1..p : Ch(s, q) \notin C})

\* s[a:b] with 1-based inclusive bounds; the empty string when a > b.
Slice(s, a, b) == IF a > b THEN "" ELSE SubSeq(s, a, b)

\* str.split(d) for a one-character separator d, empty pieces kept: the
\* pieces of s from position start on, q being the next d at or after start.
RECURSIVE SplitFrom(_, _, _, _)
SplitFrom(s, d, start, q) ==
    IF q > Len(s) THEN <<Slice(s, start, Len(s))>>
    ELSE <<Slice(s, start, q - 1)>> \o SplitFrom(s, d, q + 1, FindFirst(s, q + 1, {d}))

Split(s, d) == SplitFrom(s, d, 1, FindFirst(s, 1, {d}))

\* str.strip(chars): C is the set of characters to strip.
StripChars(s, C) == Slice(s, SkipWhile(s, 1, C), LastOutside(s, Len(s), C))

\* str.strip()
Strip(s) == StripChars(s, WS)

\* str.split(): the pieces between runs of whitespace, no empty piece; a is
\* the start of the next piece.
RECURSIVE SplitWSFrom(_, _)
SplitWSFrom(s, a) ==
    IF a > Len(s) THEN <<>>
    ELSE <<Slice(s, a, FindFirst(s, a, WS) - 1)>>
         \o SplitWSFrom(s, SkipWhile(s, FindFirst(s, a, WS), WS))

SplitWS(s) == SplitWSFrom(s, SkipWhile(s, 1, WS))

\* sep.join(parts)
RECURSIVE Join(_, _)
Join(parts, sep) ==
    IF Len(parts) = 0 THEN ""
    ELSE IF Len(parts) = 1 THEN parts[1]
    ELSE parts[1] \o sep \o Join(Tail(parts), sep)

\* str.count(c) for a one-character c.
Count(s, c) == Cardinality({i \in 1..Len(s) : Ch(s, i) = c})

\* str.lower() on ASCII letters: q is the next upper-case letter at or after p.
LowerChar(c) == Ch(LowerSeq, CHOOSE k \in 1..26 : Ch(UpperSeq, k) = c)

RECURSIVE LowerFrom(_, _, _)
LowerFrom(s, p, q) ==
    IF q > Len(s) THEN Slice(s, p, Len(s))
    ELSE Slice(s, p, q - 1) \o LowerChar(Ch(s, q))
         \o LowerFrom(s, q + 1, FindFirst(s, q + 1, Upper))

LowerStr(s) == LowerFrom(s, 1, FindFirst(s, 1, Upper))

\* str.replace(c, "") for a one-character c: q is the next c at or after p.
RECURSIVE RemoveFrom(_, _, _, _)
RemoveFrom(s, c, p, q) ==
    IF q > Len(s) THEN Slice(s, p, Len(s))
    ELSE Slice(s, p, q - 1) \o RemoveFrom(s, c, q + 1, FindFirst(s, q + 1, {c}))

RemoveChar(s, c) == RemoveFrom(s, c, 1, FindFirst(s, 1, {c}))

EndsWith(s, t) == Len(s) >= Len(t) /\ Slice(s, Len(s) - Len(t) + 1, Len(s)) = t

StartsWith(s, t) == Len(s) >= Len(t) /\ Slice(s, 1, Len(t)) = t

\* str(n) for a natural number n.
DigitStr(d) == Ch("0123456789", d + 1)

RECURSIVE IntToStr(_)
IntToStr(n) == IF n < 10 THEN DigitStr(n) ELSE IntToStr(n \div 10) \o DigitStr(n % 10)

(***************************************************************************)
(* roman.fromRoman, as the two call sites use it.  The library accepts     *)
(* exactly the canonical numerals M{0,4}(CM|CD|D?C{0,3})(XC|XL|L?X{0,3})   *)
(* (IX|IV|V?I{0,3}), and "N" for zero; every other string, the empty one   *)
(* included, raises InvalidRomanNumeralError.                              *)
(***************************************************************************)
\* The length of the run of c at p, up to most.
RunUpTo(s, p, c, most) == Max({0} \cup {n \in 1..most : \A k \in 0..(n - 1) : Ch(s, p + k) = c})

\* One bracketed group at p, read into [val, pos]: the value so far plus the
\* group's, and the position after the group.
RomanGroup(s, at, one, five, ten, unit) ==
    IF Ch(s, at.pos) = one /\ Ch(s, at.pos + 1) = ten
    THEN [val |-> at.val + 9 * unit, pos |-> at.pos + 2]
    ELSE IF Ch(s, at.pos) = one /\ Ch(s, at.pos + 1) = five
    THEN [val |-> at.val + 4 * unit, pos |-> at.pos + 2]
    ELSE IF Ch(s, at.pos) = five
    THEN [val |-> at.val + (5 + RunUpTo(s, at.pos + 1, one, 3)) * unit,
          pos |-> at.pos + 1 + RunUpTo(s, at.pos + 1, one, 3)]
    ELSE [val |-> at.val + RunUpTo(s, at.pos, one, 3) * unit,
          pos |-> at.pos + RunUpTo(s, at.pos, one, 3)]

RomanThousands(s) ==
    [val |-> 1000 * RunUpTo(s, 1, "M", 4), pos |-> 1 + RunUpTo(s, 1, "M", 4)]

RomanParsed(s) ==
    RomanGroup(s, RomanGroup(s, RomanGroup(s, RomanThousands(s), "C", "D", "M", 100),
                             "X", "L", "C", 10),
               "I", "V", "X", 1)

\* [ok, val]: the whole of s must have been read.
RomanResult(s, parsed) ==
    IF parsed.pos = Len(s) + 1 THEN [ok |-> TRUE, val |-> parsed.val]
    ELSE [ok |-> FALSE, val |-> 0]

\* [ok, val]: ok is FALSE where fromRoman raises InvalidRomanNumeralError.
fromRoman(s) ==
    IF s = "" THEN [ok |-> FALSE, val |-> 0]
    ELSE IF s = "N" THEN [ok |-> TRUE, val |-> 0]
    ELSE RomanResult(s, RomanParsed(s))

is_roman_numeral(s) == fromRoman(s).ok

(***************************************************************************)
(* clean_text.extract: the range splitter.                                 *)
(* pattern = \.\d+(?:-\d+)?,*(?:\s*\d+(?:-\d+)?)*                          *)
(* Nothing follows the pattern, so the greedy match is the match.          *)
(***************************************************************************)
\* (?:-\d+)? at p
OptHyphenDigits(s, p) ==
    IF Ch(s, p) = "-" /\ Ch(s, p + 1) \in Digit THEN SkipWhile(s, p + 1, Digit) ELSE p

\* (?:\s*\d+(?:-\d+)?)* at p, where w is the position after the \s* at p.
RECURSIVE RangeTailAt(_, _)
RangeTail(s, p, w) ==
    IF Ch(s, w) \in Digit
    THEN RangeTailAt(s, OptHyphenDigits(s, SkipWhile(s, w, Digit)))
    ELSE p

RangeTailAt(s, p) == RangeTail(s, p, SkipWhile(s, p, WS))

\* The position after a match of pattern that starts at p; 0 if none starts there.
RangeMatchEnd(s, p) ==
    IF Ch(s, p) = "." /\ Ch(s, p + 1) \in Digit
    THEN RangeTailAt(s, SkipWhile(s, OptHyphenDigits(s, SkipWhile(s, p + 1, Digit)), {","}))
    ELSE 0

\* re.search(pattern, s): the start of the leftmost match at or after p; 0 if none.
RangeSearch(s, p) == First({q \in p..Len(s) : RangeMatchEnd(s, q) # 0})

\* re.sub(pattern, repl, s) from position p on, q being the start of the
\* next match (0 if none): every match, left to right, is replaced by repl.
RECURSIVE RangeSubFrom(_, _, _, _)
RangeSubFrom(s, repl, p, q) ==
    IF q = 0 THEN Slice(s, p, Len(s))
    ELSE Slice(s, p, q - 1) \o repl
         \o RangeSubFrom(s, repl, RangeMatchEnd(s, q), RangeSearch(s, RangeMatchEnd(s, q)))

RangeSub(s, repl) == RangeSubFrom(s, repl, 1, RangeSearch(s, 1))

\* The loop over matched_range_text.split(","): need_dot is False for the
\* first piece only.
NewEntries(input_text, pieces) ==
    [i \in 1..Len(pieces) |->
        RangeSub(input_text, (IF i > 1 THEN "." ELSE "") \o Strip(pieces[i]))]

\* The part of extract after re.search, the match starting at start.
ExtractAt(input_text, start) ==
    IF start = 0 THEN <<>>
    ELSE NewEntries(input_text,
                    Split(Slice(input_text, start, RangeMatchEnd(input_text, start) - 1), ","))

CleanText_extract(input_text) == ExtractAt(input_text, RangeSearch(input_text, 1))

(***************************************************************************)
(* clean_text.smart_split, clean_text.is_balanced                          *)
(***************************************************************************)
\* parts.append(''.join(current)) if current is not empty
Flush(current) == IF current # "" THEN <<current>> ELSE <<>>

\* The loop over the characters.  Characters that are neither a bracket nor
\* the delimiter only extend current, so the loop is followed from one such
\* character to the next: q is the next one at or after p, and current
\* already holds the characters before q.  The parts made so far are
\* returned in front of the parts of the rest.
\* `char == ')' or char == ']' and depth > 0` binds as
\* `char == ')' or (char == ']' and depth > 0)`.
RECURSIVE CleanSplitFrom(_, _, _, _, _)
CleanSplitNext(text, delimiter, p, depth, current) ==
    CleanSplitFrom(text, delimiter,
                   FindFirst(text, p, {"(", "[", ")", "]", delimiter}), depth,
                   current \o Slice(text, p,
                                    FindFirst(text, p, {"(", "[", ")", "]", delimiter}) - 1))

CleanSplitFrom(text, delimiter, q, depth, current) ==
    IF q > Len(text) THEN Flush(current)
    ELSE IF Ch(text, q) = "(" \/ Ch(text, q) = "["
    THEN CleanSplitNext(text, delimiter, q + 1, depth + 1, current \o Ch(text, q))
    ELSE IF Ch(text, q) = ")" \/ (Ch(text, q) = "]" /\ depth > 0)
    THEN CleanSplitNext(text, delimiter, q + 1, depth - 1, current \o Ch(text, q))
    ELSE IF Ch(text, q) = delimiter /\ depth = 0
    THEN Flush(current) \o CleanSplitNext(text, delimiter, q + 1, depth, "")
    ELSE CleanSplitNext(text, delimiter, q + 1, depth, current \o Ch(text, q))

CleanText_smart_split(text, delimiter) == CleanSplitNext(text, delimiter, 1, 0, "")

\* A filter that lets every string through.
AnyBrackets(s) == TRUE

is_balanced(s) == Count(s, "(") = Count(s, ")") /\ Count(s, "[") = Count(s, "]")

(***************************************************************************)
(* clean_text.expand.  The result is the returned tuple; raised marks the  *)
(* IndexError of parts[-1] on a text with no part at all.                  *)
(***************************************************************************)
Expanded(clause, collection, volume, identifier) ==
    [clause |-> Join(SplitWS(clause), " "), collection |-> collection,
     volume |-> volume, identifier |-> identifier, raised |-> FALSE]

\* if parts[-1].startswith("["): parts = parts[:-1]
DropNote(parts) ==
    IF StartsWith(parts[Len(parts)], "[") THEN SubSeq(parts, 1, Len(parts) - 1) ELSE parts

\* offset = 1 if "?" in parts else 0
Offset(parts) == IF \E i \in 1..Len(parts) : parts[i] = "?" THEN 1 ELSE 0

\* A default case that returned the defaults of the context, not the
\* context it was given.
ExpandFailedResetting(text, previous_collection, previous_volume, previous_identifier) ==
    Expanded(text \o " Failed", "", "", "")

\* The default case: " Failed" is appended and no context field is assigned.
ExpandFailed(text, previous_collection, previous_volume, previous_identifier) ==
    Expanded(text \o " Failed", previous_collection, previous_volume, previous_identifier)

\* The chain of cases on len(parts).
ExpandParts(text, parts, offset, previous_collection, previous_volume, previous_identifier) ==
    IF Len(parts) = 4 + offset
    THEN Expanded(text, parts[1], parts[2], Split(parts[3], ".")[1])
    ELSE IF Len(parts) = 3 + offset /\ is_roman_numeral(parts[1])
    THEN Expanded(previous_collection \o " " \o text,
                  previous_collection, parts[1], previous_identifier)
    ELSE IF Len(parts) = 3 + offset
    THEN Expanded(text, parts[1], previous_volume, previous_identifier)
    ELSE IF Len(parts) = 2 + offset /\ Len(Split(parts[1], ".")) = 1
    THEN Expanded(previous_collection \o " " \o previous_volume \o " "
                      \o previous_identifier \o "." \o text,
                  previous_collection, previous_volume, previous_identifier)
    ELSE IF Len(parts) = 2 + offset
    THEN Expanded(previous_collection \o " " \o previous_volume \o " " \o text,
                  previous_collection, previous_volume, Split(parts[1], ".")[1])
    ELSE ExpandFailed(text, previous_collection, previous_volume, previous_identifier)

ExpandSplit(text, split, previous_collection, previous_volume, previous_identifier) ==
    IF Len(split) = 0
    THEN [clause |-> "", collection |-> previous_collection,
          volume |-> previous_volume, identifier |-> previous_identifier,
          raised |-> TRUE]
    ELSE ExpandParts(text, DropNote(split), Offset(DropNote(split)),
                     previous_collection, previous_volume, previous_identifier)

expand(text, previous_collection, previous_volume, previous_identifier) ==
    ExpandSplit(text, CleanText_smart_split(text, " "),
                previous_collection, previous_volume, previous_identifier)

(***************************************************************************)
(* clean_text.extract_papyri_references.                                   *)
(*                                                                         *)
(* Both patterns end in \s*\([^()]*\), and nothing before that can consume *)
(* a "(": a match that starts at p ends at the first ")" after the first   *)
(* "(" after p, whichever way the optional and repeated groups before it   *)
(* divide the characters.  The groups are therefore followed as sets of    *)
(* positions (every way the group can end), which is what backtracking     *)
(* explores.                                                               *)
(***************************************************************************)
\* re.sub(r'\n\s*', ' ', text) from p on, q being the next newline.
RECURSIVE SubNewlinesFrom(_, _, _)
SubNewlinesFrom(text, p, q) ==
    IF q > Len(text) THEN Slice(text, p, Len(text))
    ELSE Slice(text, p, q - 1) \o " "
         \o SubNewlinesFrom(text, SkipWhile(text, q + 1, WS),
                            FindFirst(text, SkipWhile(text, q + 1, WS), {"\n"}))

SubNewlines(text) == SubNewlinesFrom(text, 1, FindFirst(text, 1, {"\n"}))

\* text = re.sub(r'\n\s*', ' ', text); text = text.replace("?", "")
Normalize(text) == RemoveChar(SubNewlines(text), "?")

\* C+ from any position of P: every end of a non-empty run of class C.
Run1(s, P, C) == UNION {(p + 1)..SkipWhile(s, p, C) : p \in P}

\* C* from any position of P.
Run0(s, P, C) == P \cup Run1(s, P, C)

\* One literal character c from any position of P.
Lit(s, P, c) == {p + 1 : p \in {q \in P : Ch(s, q) = c}}

\* (?:-[0-9]+)? from any position of P.
OptHyphenNum(s, P) == P \cup Run1(s, Lit(s, P, "-"), Digit)

\* (?:\.C+)* from any position of P, for a class C.
RECURSIVE DotRunStar(_, _, _)
DotRunStar(s, P, C) ==
    IF Run1(s, Lit(s, P, "."), C) \subseteq P THEN P
    ELSE DotRunStar(s, P \cup Run1(s, Lit(s, P, "."), C), C)

\* (?:\.[0-9]+)* from any position of P.
DotNumStar(s, P) == DotRunStar(s, P, Digit)

\* (?:\.[A-Z]+)* from any position of P.
DotUpperStar(s, P) == DotRunStar(s, P, Upper)

\* ,\s*[0-9]+(?:-[0-9]+)? from any position of P.
CommaRange(s, P) == OptHyphenNum(s, Run1(s, Run0(s, Lit(s, P, ","), WS), Digit))

\* (?:,\s*[0-9]+(?:-[0-9]+)?)* from any position of P.
RECURSIVE CommaRangeStar(_, _)
CommaRangeStar(s, P) ==
    IF CommaRange(s, P) \subseteq P THEN P
    ELSE CommaRangeStar(s, P \cup CommaRange(s, P))

\* (?:\.[0-9]+(?:-[0-9]+)?(?:,\s*[0-9]+(?:-[0-9]+)?)*)?  from any position of P.
OptLines(s, P) ==
    P \cup CommaRangeStar(s, OptHyphenNum(s, Run1(s, Lit(s, P, "."), Digit)))

\* (?:\?)? from any position of P.
OptMark(s, P) == P \cup Lit(s, P, "?")

\* [0-9]+(?:\.[0-9]+)*  then the optional line reference, the optional
\* question mark and \s*, from any position of P: the positions where "("
\* may follow.
NumberAndLines(s, P) ==
    Run0(s, OptMark(s, OptLines(s, DotNumStar(s, Run1(s, P, Digit)))), WS)

\* (?:\s*\[[^]]*\])? at e, where open is the position after the \s* and
\* note the first "]" after it.
NoteEnd(s, e, open, note) ==
    IF Ch(s, open) = "[" /\ Ch(s, note) = "]" THEN note + 1 ELSE e

NoteAt(s, e, open) == NoteEnd(s, e, open, FindFirst(s, open + 1, {"]"}))

\* \([^()]*\) at p, close being the first parenthesis after p, and the
\* optional note after it.
ParenEnd(s, p, close) ==
    IF Ch(s, p) # "(" \/ Ch(s, close) # ")" THEN 0
    ELSE NoteAt(s, close + 1, SkipWhile(s, close + 1, WS))

\* \([^()]*\)  (?:\s*\[[^]]*\])?  at p: the position after it, 0 if no match.
ParenAndNote(s, p) == ParenEnd(s, p, FindFirst(s, p + 1, {"(", ")"}))

\* The end of a match whose parenthesis is at paren, before being the
\* positions where the pattern allows one.
MatchEndAt(s, paren, before) == IF paren \in before THEN ParenAndNote(s, paren) ELSE 0

\* \.?\s+ from any position of P.
OptDotSpaces(s, P) == Run1(s, P \cup Lit(s, P, "."), WS)

\* (?:[IVX]+|[0-9]+)? from any position of P.
OptVolume(s, P) == P \cup Run1(s, P, {"I", "V", "X"}) \cup Run1(s, P, Digit)

\* The full-form pattern at p:
\* [A-Z]+(?:\.[A-Z]+)*\.?\s+  (?:[IVX]+|[0-9]+)?  \s*  then NumberAndLines.
FullMatchEnd(s, p) ==
    MatchEndAt(s, FindFirst(s, p, {"("}),
               NumberAndLines(s, Run0(s, OptVolume(s, OptDotSpaces(s,
                   DotUpperStar(s, Run1(s, {p}, Upper)))), WS)))

\* The continuation pattern at p: (?:[IVX]+\s+)? then NumberAndLines.
ContinuationMatchEnd(s, p) ==
    MatchEndAt(s, FindFirst(s, p, {"("}),
               NumberAndLines(s, {p} \cup Run1(s, Run1(s, {p}, {"I", "V", "X"}), WS)))

PatternMatchEnd(part, full, p) ==
    IF full THEN FullMatchEnd(part, p) ELSE ContinuationMatchEnd(part, p)

\* The start of the leftmost match at or after p; 0 if there is none.
FirstStart(part, full, p) ==
    First({q \in p..Len(part) : PatternMatchEnd(part, full, q) # 0})

\* re.findall(pattern, part): the matches left to right, without overlap,
\* q being the start of the next one.
RECURSIVE FindAll(_, _, _)
FindAll(part, full, q) ==
    IF q = 0 THEN <<>>
    ELSE <<Slice(part, q, PatternMatchEnd(part, full, q) - 1)>>
         \o FindAll(part, full, FirstStart(part, full, PatternMatchEnd(part, full, q)))

\* The body of the first loop for one part: the part is matched against the
\* full form if it is the first one or re.match(r'[A-Z]+\.?', part) succeeds.
MatchPart(part, first) ==
    IF part = "" THEN <<>>
    ELSE FindAll(part, first \/ Ch(part, 1) \in Upper,
                 FirstStart(part, first \/ Ch(part, 1) \in Upper, 1))

RECURSIVE Flatten(_)
Flatten(lists) == IF Len(lists) = 0 THEN <<>> ELSE Head(lists) \o Flatten(Tail(lists))

MatchParts(parts) ==
    Flatten([i \in 1..Len(parts) |-> MatchPart(Strip(parts[i]), i = 1)])

all_references(text) == MatchParts(Split(Normalize(text), ";"))

\* The second loop, for one reference: what it adds to new_references.
KeepBalanced(ref_with_semicolon, extracted) ==
    IF ~is_balanced(ref_with_semicolon) THEN <<>>
    ELSE IF Len(extracted) > 0 THEN SelectSeq(extracted, is_balanced)
    ELSE <<ref_with_semicolon>>

SplitReference(reference) ==
    KeepBalanced(reference \o ";", CleanText_extract(reference \o ";"))

new_references(references) ==
    Flatten([i \in 1..Len(references) |-> SplitReference(references[i])])

extract_papyri_references(text) == new_references(all_references(text))

(***************************************************************************)
(* GTE.smart_split, GTE.process_extracted_text                             *)
(***************************************************************************)
\* As clean_text.smart_split, for parentheses only, with ' ' the delimiter
\* and ')' lowering the depth whatever it is.
RECURSIVE GTESplitFrom(_, _, _, _)
GTESplitNext(text, p, depth, current) ==
    GTESplitFrom(text, FindFirst(text, p, {"(", ")", " "}), depth,
                 current \o Slice(text, p, FindFirst(text, p, {"(", ")", " "}) - 1))

GTESplitFrom(text, q, depth, current) ==
    IF q > Len(text) THEN Flush(current)
    ELSE IF Ch(text, q) = "("
    THEN GTESplitNext(text, q + 1, depth + 1, current \o "(")
    ELSE IF Ch(text, q) = ")"
    THEN GTESplitNext(text, q + 1, depth - 1, current \o ")")
    ELSE IF depth = 0
    THEN Flush(current) \o GTESplitNext(text, q + 1, depth, "")
    ELSE GTESplitNext(text, q + 1, depth, current \o " ")

GTE_smart_split(text) == GTESplitNext(text, 1, 0, "")

\* What process_extracted_text gives: a dict (tag "dict"), None, or the
\* IndexError of parts[0], which is read outside the try block.
Dict(collection, number, identifier, lines) ==
    [tag |-> "dict", collection |-> collection, number |-> number,
     identifier |-> identifier, lines |-> lines]

None == [tag |-> "None", collection |-> "", number |-> 0, identifier |-> "", lines |-> ""]

IndexError ==
    [tag |-> "IndexError", collection |-> "", number |-> 0, identifier |-> "", lines |-> ""]

\* parts[0][:-1].lower() if parts[0].endswith('.') else parts[0].lower()
Collection(part) ==
    LowerStr(IF EndsWith(part, ".") THEN Slice(part, 1, Len(part) - 1) ELSE part)

\* A try block that keeps the default number 0 where fromRoman raises.
TryNumberDefault(parts, number) ==
    IF Len(parts) >= 3
    THEN Dict(Collection(parts[1]), number.val, Split(parts[3], ".")[1], "")
    ELSE None

\* The statements of the try block outside any try: what fromRoman or
\* parts[2] raises leaves the parser.
TryNumberUncaught(parts, number) ==
    IF number.ok /\ Len(parts) >= 3
    THEN Dict(Collection(parts[1]), number.val, Split(parts[3], ".")[1], "")
    ELSE IndexError

\* The try block: fromRoman or parts[2] may raise, and then None is returned.
\* output['lines'] keeps its initial "": no statement assigns it.
TryNumber(parts, number) ==
    IF number.ok /\ Len(parts) >= 3
    THEN Dict(Collection(parts[1]), number.val, Split(parts[3], ".")[1], "")
    ELSE None

ProcessParts(parts) ==
    IF Len(parts) % 2 # 0 THEN None
    ELSE IF Len(parts) = 0 THEN IndexError
    ELSE TryNumber(parts, fromRoman(parts[2]))

process_extracted_text(input_text) == ProcessParts(GTE_smart_split(input_text))

\* ------------------------------------------------------------------------
\* GTE.extract.  range_pattern =
\*   (?P<base>(?:[A-Z][A-Za-z.]*\s){1,2}\d+\.)
\*   (?P<ranges>\d+-\d+(?:,\s*\d+-\d+)*)  \s*  (?P<paren>\([^)]+\))
\* Each piece can end in one place only (a shorter run is followed by a
\* character of the run, which nothing after it accepts), so the matcher
\* follows the greedy choice.  An end of 0 stands for no match, and a piece
\* asked to start at 0 does not match.
\* ------------------------------------------------------------------------
\* [A-Z][A-Za-z.]*\s at p, q being the position after the [A-Za-z.]*
TokenEndAt(s, p, q) == IF Ch(s, p) \in Upper /\ Ch(s, q) \in WS THEN q + 1 ELSE 0

TokenEnd(s, p) == TokenEndAt(s, p, SkipWhile(s, p + 1, Upper \cup Lower \cup {"."}))

\* \d+\. at p, q being the position after the \d+
NumberDotEndAt(s, p, q) == IF Ch(s, p) \in Digit /\ Ch(s, q) = "." THEN q + 1 ELSE 0

NumberDotEnd(s, p) == NumberDotEndAt(s, p, SkipWhile(s, p, Digit))

\* base, whose first token ends at one: two tokens if a number follows
\* them, else one.
BaseEndOf(one, n1, n2) == IF one = 0 THEN 0 ELSE IF n2 # 0 THEN n2 ELSE n1

BaseEndAt(s, one) == BaseEndOf(one, NumberDotEnd(s, one), NumberDotEnd(s, TokenEnd(s, one)))

BaseEnd(s, p) == BaseEndAt(s, TokenEnd(s, p))

\* \d+-\d+ at p, q being the position after the first \d+
OneRangeEndAt(s, p, q) ==
    IF Ch(s, p) \in Digit /\ Ch(s, q) = "-" /\ Ch(s, q + 1) \in Digit
    THEN SkipWhile(s, q + 1, Digit) ELSE 0

OneRangeEnd(s, p) == OneRangeEndAt(s, p, SkipWhile(s, p, Digit))

\* (?:,\s*\d+-\d+)* at p, e being the end of one more ,\s*\d+-\d+ at p
RECURSIVE MoreRangesEndAt(_, _, _)
CommaRangeEnd(s, p) ==
    IF Ch(s, p) = "," THEN OneRangeEnd(s, SkipWhile(s, p + 1, WS)) ELSE 0

MoreRangesEndAt(s, p, e) ==
    IF e = 0 THEN p ELSE MoreRangesEndAt(s, e, CommaRangeEnd(s, e))

MoreRangesEnd(s, p) == IF p = 0 THEN 0 ELSE MoreRangesEndAt(s, p, CommaRangeEnd(s, p))

\* The match of range_pattern that starts at p, with the bounds of its
\* groups (ok is FALSE if there is none): b, r are the ends of base and
\* ranges, o is the position after the \s*, c the first ")" after o.
MatchOf(s, p, b, r, o, c) ==
    IF r # 0 /\ Ch(s, o) = "(" /\ c > o + 1 /\ Ch(s, c) = ")"
    THEN [ok |-> TRUE, start |-> p, base |-> Slice(s, p, b - 1),
          ranges |-> Slice(s, b, r - 1), paren |-> Slice(s, o, c), end |-> c + 1]
    ELSE [ok |-> FALSE, start |-> p, base |-> "", ranges |-> "", paren |-> "",
          end |-> 0]

MatchParen(s, p, b, r, o) == MatchOf(s, p, b, r, o, FindFirst(s, o + 1, {")"}))

MatchRanges(s, p, b, r) == MatchParen(s, p, b, r, SkipWhile(s, r, WS))

MatchBase(s, p, b) == MatchRanges(s, p, b, MoreRangesEnd(s, OneRangeEnd(s, b)))

RangePatternAt(s, p) == MatchBase(s, p, BaseEnd(s, p))

\* The start of the leftmost match of range_pattern at or after p; 0 if none.
NextMatch(input_text, p) ==
    First({q \in p..Len(input_text) : RangePatternAt(input_text, q).ok})

\* re.finditer(range_pattern, input_text): the matches from the one at q on.
RECURSIVE MatchesAt(_, _)
MatchesFrom(input_text, q, m) ==
    IF q = 0 THEN <<>>
    ELSE <<m>> \o MatchesAt(input_text, NextMatch(input_text, m.end))

MatchesAt(input_text, q) == MatchesFrom(input_text, q, RangePatternAt(input_text, q))

finditer(input_text) == MatchesAt(input_text, NextMatch(input_text, 1))

\* The citations of one match: one for each range of ranges.split(",").
CitationsOf(base, rs, paren) ==
    [k \in 1..Len(rs) |-> base \o Strip(rs[k]) \o " " \o paren \o ";"]

\* The body of `for match in matches` for one match, split_base being
\* base.split(' '): the citations it appends to raw_matches.
MatchCitations(match, split_base, prev_collection) ==
    CitationsOf(IF Len(split_base) = 2
                THEN Join(<<prev_collection, split_base[1], split_base[2]>>, " ")
                ELSE match.base,
                Split(match.ranges, ","), match.paren)

\* prev_collection after the body.
NextCollection(split_base, prev_collection) ==
    IF Len(split_base) = 2 THEN prev_collection ELSE split_base[1]

RECURSIVE RawMatchesFrom(_, _, _)
RawMatchesFrom(matches, i, prev_collection) ==
    IF i > Len(matches) THEN <<>>
    ELSE MatchCitations(matches[i], Split(matches[i].base, " "), prev_collection)
         \o RawMatchesFrom(matches, i + 1,
                           NextCollection(Split(matches[i].base, " "), prev_collection))

IsDict(d) == d.tag = "dict"

\* What process_extracted_text gives for each citation of raw_matches.
Processed(raw) == [k \in 1..Len(raw) |-> process_extracted_text(raw[k])]

\* [processed_matches, raw_matches]: every citation goes to raw_matches, and
\* its dict, if process_extracted_text gives one, to processed_matches.
\* raised marks an exception of process_extracted_text, which extract does
\* not catch.
ExtractResult(raw, each) ==
    [processed_matches |-> SelectSeq(each, IsDict),
     raw_matches |-> raw,
     raised |-> \E k \in 1..Len(each) : each[k].tag = "IndexError"]

ExtractOf(raw) == ExtractResult(raw, Processed(raw))

GTE_extract(input_text) == ExtractOf(RawMatchesFrom(finditer(input_text), 1, ""))

(***************************************************************************)
(* GTE.get_Dir, GTE.scrape_list, GTE.greek_text_from_text                  *)
(***************************************************************************)
\* f"{base_dir}/{collection}/{collection}.{number}/{collection}.{number}.{identifier}.xml"
DirOf(c, n, identifier) ==
    "./src/data/greek/idp.data/DDB_EpiDoc_XML/" \o c \o "/" \o c \o "." \o n
        \o "/" \o c \o "." \o n \o "." \o identifier \o ".xml"

get_Dir(input_dict) ==
    DirOf(input_dict.collection, IntToStr(input_dict.number), input_dict.identifier)

\* An Optional[str]: None, or a string.
NoneStr == [none |-> TRUE, str |-> ""]
Str(t) == [none |-> FALSE, str |-> t]

\* What a call of extract_greek_lines_from_file may do: raise (no such file,
\* no XML in it), return "" (no numbered line in the edition), or return
\* the lines of the file.  The lines themselves are not modelled: the text
\* of a file is named after its path, so two files have different texts.
Outcomes == {"raise", "empty", "text"}

GreekText(path) == "lines of " \o path

extract_greek_lines_from_file(filepath, outcome) ==
    IF outcome = "empty" THEN "" ELSE GreekText(filepath)

\* A loop body with no except clause that appends: a failed call leaves
\* output as it is.
ScrapeOneSkipping(out, dict, outcome) ==
    IF outcome = "raise" THEN out
    ELSE Append(out, Str(extract_greek_lines_from_file(get_Dir(dict), outcome)))

\* try: output.append(extract_greek_lines_from_file(get_Dir(dict)))
\* except: output.append(None)
ScrapeOne(out, dict, outcome) ==
    IF outcome = "raise" THEN Append(out, NoneStr)
    ELSE Append(out, Str(extract_greek_lines_from_file(get_Dir(dict), outcome)))

Range(f) == {f[i] : i \in DOMAIN f}

\* The orders of the elements of set S.
Orders(S) ==
    {f \in [1..Cardinality(S) -> S] : \A a, b \in 1..Cardinality(S) : a # b => f[a] # f[b]}

\* The dicts as they are, duplicates kept.
AllDicts(dicts) == {dicts}

\* [dict(t) for t in {tuple(d.items()) for d in extracted_Dicts}]: the
\* distinct dicts, in the order the set happens to iterate them (the hashes
\* of strings differ from run to run): any order.
UniqueDictOrders(dicts) == Orders(Range(dicts))

\* The loop without its `continue`: every pair is kept.
RECURSIVE ZipAllFrom(_, _, _)
ZipAllFrom(clauses, texts, i) ==
    IF i > Len(clauses) \/ i > Len(texts) THEN <<>>
    ELSE <<[clause |-> clauses[i], text |-> texts[i]]>> \o ZipAllFrom(clauses, texts, i + 1)

\* The loop over zip(extracted_text, scrape_list(...)) from pair i on.
RECURSIVE ZipFrom(_, _, _)
ZipFrom(clauses, texts, i) ==
    IF i > Len(clauses) \/ i > Len(texts) THEN <<>>
    ELSE (IF texts[i] = Str("") \/ texts[i] = NoneStr THEN <<>>
          ELSE <<[clause |-> clauses[i], text |-> texts[i]]>>)
         \o ZipFrom(clauses, texts, i + 1)

(***************************************************************************)
(* The state.  Each variable is a parameter or a local of the function     *)
(* named; calls and slept record what the run did to its environment.      *)
(***************************************************************************)
VARIABLES
    pc,                  \* where the run is
    input_text,          \* greek_text_from_text / process_extracted_text: the argument
    delay,               \* greek_text_from_text, scrape_list: the argument
    all_refs,            \* extract_papyri_references: all_references
    references,          \* collect_expanded: references
    previous_collection, \* collect_expanded: the context handed to expand
    previous_volume,
    previous_identifier,
    all_expanded,        \* collect_expanded: all_expanded
    joined,              \* greek_text_from_text: input_text after line 240
    extracted_Dicts,     \* greek_text_from_text
    extracted_text,      \* greek_text_from_text
    unique_dicts,        \* greek_text_from_text
    dict_list,           \* scrape_list: the argument
    output,              \* scrape_list: output
    calls,               \* the calls of extract_greek_lines_from_file so far
    slept,               \* the time.sleep calls so far: the seconds of each
    output_list,         \* greek_text_from_text: the result
    processed            \* process_extracted_text: the result

vars == <<pc, input_text, delay, all_refs, references, previous_collection,
          previous_volume, previous_identifier, all_expanded, joined,
          extracted_Dicts, extracted_text, unique_dicts, dict_list, output,
          calls, slept, output_list, processed>>

collectVars == <<all_refs, references, previous_collection, previous_volume,
                 previous_identifier, all_expanded>>

orchestratorVars == <<joined, extracted_Dicts, extracted_text, unique_dicts, output_list>>

scrapeVars == <<dict_list, output, calls, slept>>

(***************************************************************************)
(* Bounds and the inputs the runs are checked on.                          *)
(***************************************************************************)
MaxSegs == 2
MaxRefs == 3
MaxDicts == 2
MaxVolume == 40

\* Sequences of 1..n elements of set S.
SeqsUpTo(S, n) == UNION {[1..k -> S] : k \in 1..n}

\* Citations as they stand between the semicolons of a document: full
\* forms (one with three ranges, one with an unbalanced note, one with a
\* volume that is no numeral, two with no semicolon between them),
\* continuations, and a text with no citation.
Segments ==
    {"P.OXY. IV 123.10-12 (AD 100)",
     "P.OXY. IV 124.3-4 (AD 101) BGU II 45.1-3 (AD 200)",
     "P.OXY. IV 123.10-12, 15-18, 20-22 (AD 100)",
     "P.OXY. IV 123.15-18 (AD 100) [x(y]",
     "P.OXY. IIII 9.1-2 (AD 9)",
     "BGU II 45.1-3,5-6 (AD 200)",
     "126.1-2?\n  (AD 1) [n]",
     "V 7.1-2 (AD 5)",
     "P. OXY. (123"}

Documents == {Join(segs, "; ") : segs \in SeqsUpTo(Segments, MaxSegs)}

Delays == {0, 1}

\* Citations handed to expand one after the other.
Citations ==
    {"P.OXY. IV 123.10-12 (AD 100)",
     "BGU II 45.1-3 (AD 200)",
     "BGU 7.1-2 (AD 3)",
     "V 7.1-2 (AD 5)",
     "125.5-7 (AD 100)",
     "5-7 (AD 100)",
     "P. OXY. 123. 10-12 (AD 100)",
     "125. 5-7 (AD 100)"}

\* Dicts handed to scrape_list.
DictMenu ==
    {Dict("p.oxy", 4, "123", ""), Dict("bgu", 2, "45", ""), Dict("", 0, "", "")}

\* roman.toRoman, to write the volume tokens of the parser's inputs.
RECURSIVE toRoman(_)
toRoman(n) ==
    IF n >= 1000 THEN "M" \o toRoman(n - 1000)
    ELSE IF n >= 900 THEN "CM" \o toRoman(n - 900)
    ELSE IF n >= 500 THEN "D" \o toRoman(n - 500)
    ELSE IF n >= 400 THEN "CD" \o toRoman(n - 400)
    ELSE IF n >= 100 THEN "C" \o toRoman(n - 100)
    ELSE IF n >= 90 THEN "XC" \o toRoman(n - 90)
    ELSE IF n >= 50 THEN "L" \o toRoman(n - 50)
    ELSE IF n >= 40 THEN "XL" \o toRoman(n - 40)
    ELSE IF n >= 10 THEN "X" \o toRoman(n - 10)
    ELSE IF n >= 9 THEN "IX" \o toRoman(n - 9)
    ELSE IF n >= 5 THEN "V" \o toRoman(n - 5)
    ELSE IF n >= 4 THEN "IV" \o toRoman(n - 4)
    ELSE IF n >= 1 THEN "I" \o toRoman(n - 1)
    ELSE ""

VolumeNumbers == 1..MaxVolume \cup {49, 90, 99, 400, 444, 944, 1994, 3999, 4999}

\* Tokens that are no Roman numeral of the library.
InvalidVolumes ==
    {"IIII", "VV", "IC", "IL", "XXXX", "VX", "IIV", "5", "IV.", "Failed", "MMMMM"}

ParserCollections == {"P.OXY.", "BGU"}

\* A citation as GTE.extract rebuilds it, with collection c and volume token v.
ParserInput(c, v) == c \o " " \o v \o " 123.10-12 (AD 100);"

\* Such citations, three with another number of parts, and two whose
\* collection or document token holds nothing before its dot.
ParserInputs ==
    {ParserInput(c, v) :
        c \in ParserCollections,
        v \in {toRoman(n) : n \in VolumeNumbers} \cup InvalidVolumes}
    \cup {"IV 123.10-12 (AD 100);", "P.OXY. IV 123.10-12 (AD 100) [n];", "P.OXY. IV"}
    \cup {". IV 123.10-12 (AD 100);", "P.OXY. IV .10-12 (AD 100);"}

(***************************************************************************)
(* Initial states: one per entry point.                                    *)
(***************************************************************************)
Idle ==
    /\ all_refs = <<>>
    /\ references = <<>>
    /\ previous_collection = ""
    /\ previous_volume = ""
    /\ previous_identifier = ""
    /\ all_expanded = <<>>
    /\ joined = ""
    /\ extracted_Dicts = <<>>
    /\ extracted_text = <<>>
    /\ unique_dicts = <<>>
    /\ output_list = <<>>
    /\ processed = None

NothingFetched ==
    /\ dict_list = <<>>
    /\ output = <<>>
    /\ calls = <<>>
    /\ slept = <<>>

\* greek_text_from_text(input_text), as populate_database calls it: delay
\* has its default.
Init ==
    /\ pc = "start"
    /\ input_text \in Documents
    /\ delay = 0
    /\ Idle
    /\ NothingFetched

\* expand called on a sequence of citations, the context threaded as in
\* the loop of collect_expanded, starting from its defaults.
InitExpand ==
    /\ pc = "expand"
    /\ input_text = ""
    /\ delay = 0
    /\ all_refs = <<>>
    /\ references \in SeqsUpTo(Citations, MaxRefs)
    /\ previous_collection = ""
    /\ previous_volume = ""
    /\ previous_identifier = ""
    /\ all_expanded = <<>>
    /\ joined = ""
    /\ extracted_Dicts = <<>>
    /\ extracted_text = <<>>
    /\ unique_dicts = <<>>
    /\ output_list = <<>>
    /\ processed = None
    /\ NothingFetched

\* scrape_list(dict_list, delay)
InitScrape ==
    /\ pc = "scrape"
    /\ input_text = ""
    /\ delay \in Delays
    /\ Idle
    /\ dict_list \in {<<>>} \cup SeqsUpTo(DictMenu, MaxDicts)
    /\ output = <<>>
    /\ calls = <<>>
    /\ slept = <<>>

\* process_extracted_text(input_text)
InitParse ==
    /\ pc = "parse"
    /\ input_text \in ParserInputs
    /\ delay = 0
    /\ Idle
    /\ NothingFetched

\* greek_text_from_text(input_text, delay) called with a delay of its own.
InitDelay ==
    /\ pc = "start"
    /\ input_text \in Documents
    /\ delay \in Delays \ {0}
    /\ Idle
    /\ NothingFetched

(***************************************************************************)
(* Actions.                                                                *)
(***************************************************************************)
\* collect_expanded up to its loop (clean_text.py 190-194), called from
\* greek_text_from_text with the default context.  The text is normalized
\* before extract_papyri_references, which normalizes it again.
CollectStart ==
    /\ pc = "start"
    /\ all_refs' = all_references(Normalize(input_text))
    /\ references' = new_references(all_refs')
    /\ previous_collection' = ""
    /\ previous_volume' = ""
    /\ previous_identifier' = ""
    /\ all_expanded' = <<>>
    /\ pc' = "expand"
    /\ UNCHANGED <<input_text, delay, processed>>
    /\ UNCHANGED orchestratorVars
    /\ UNCHANGED scrapeVars

\* One iteration of `for ref in references` (clean_text.py 196-203).  expand
\* returns a str, never a list, so the iteration appends one clause.
ExpandStep ==
    /\ pc = "expand"
    /\ Len(all_expanded) < Len(references)
    /\ \E r \in {expand(StripChars(references[Len(all_expanded) + 1], {";"}),
                          previous_collection, previous_volume, previous_identifier)} :
           IF r.raised
           THEN /\ pc' = "raised"
                /\ UNCHANGED <<previous_collection, previous_volume,
                               previous_identifier, all_expanded>>
           ELSE /\ pc' = pc
                /\ previous_collection' = r.collection
                /\ previous_volume' = r.volume
                /\ previous_identifier' = r.identifier
                /\ all_expanded' = Append(all_expanded, r.clause)
    /\ UNCHANGED <<input_text, delay, all_refs, references, processed>>
    /\ UNCHANGED orchestratorVars
    /\ UNCHANGED scrapeVars

\* GTE.py 240-241: collect_expanded has returned; join and extract.
ExtractJoined ==
    /\ pc = "expand"
    /\ input_text # ""
    /\ Len(all_expanded) = Len(references)
    /\ joined' = Join(all_expanded, " ")
    /\ \E r \in {GTE_extract(joined')} :
           /\ extracted_Dicts' = r.processed_matches
           /\ extracted_text' = r.raw_matches
           /\ pc' = IF r.raised THEN "raised" ELSE "dedup"
    /\ UNCHANGED <<input_text, delay, unique_dicts, output_list, processed>>
    /\ UNCHANGED collectVars
    /\ UNCHANGED scrapeVars

\* GTE.py 242, and the call of scrape_list(unique_dicts, delay) of line 245.
Deduplicate ==
    /\ pc = "dedup"
    /\ unique_dicts' \in UniqueDictOrders(extracted_Dicts)
    /\ dict_list' = unique_dicts'
    /\ output' = <<>>
    /\ pc' = "scrape"
    /\ UNCHANGED <<input_text, delay, joined, extracted_Dicts, extracted_text,
                   output_list, processed, calls, slept>>
    /\ UNCHANGED collectVars

\* The iteration with time.sleep inside the try block, after the call: an
\* attempt that raises is not followed by a sleep.
ScrapeStepSleepInTry ==
    /\ pc = "scrape"
    /\ Len(output) < Len(dict_list)
    /\ \E outcome \in Outcomes :
          /\ calls' = Append(calls, [path |-> get_Dir(dict_list[Len(output) + 1]),
                                     outcome |-> outcome])
          /\ output' = ScrapeOne(output, dict_list[Len(output) + 1], outcome)
          /\ slept' = IF outcome = "raise" THEN slept ELSE Append(slept, delay)
    /\ UNCHANGED <<pc, input_text, delay, dict_list, processed>>
    /\ UNCHANGED orchestratorVars
    /\ UNCHANGED collectVars

\* One iteration of `for dict in dict_list` (GTE.py 218-223).
ScrapeStep ==
    /\ pc = "scrape"
    /\ Len(output) < Len(dict_list)
    /\ \E outcome \in Outcomes :
          LET dict == dict_list[Len(output) + 1]
          IN  /\ calls' = Append(calls, [path |-> get_Dir(dict), outcome |-> outcome])
              /\ output' = ScrapeOne(output, dict, outcome)
    /\ slept' = Append(slept, delay)
    /\ UNCHANGED <<pc, input_text, delay, dict_list, processed>>
    /\ UNCHANGED orchestratorVars
    /\ UNCHANGED collectVars

\* scrape_list has returned: the loop of GTE.py 245-250.
ZipFilter ==
    /\ pc = "scrape"
    /\ input_text # ""
    /\ Len(output) = Len(dict_list)
    /\ output_list' = ZipFrom(extracted_text, output, 1)
    /\ pc' = "done"
    /\ UNCHANGED <<input_text, delay, joined, extracted_Dicts, extracted_text,
                   unique_dicts, processed>>
    /\ UNCHANGED collectVars
    /\ UNCHANGED scrapeVars

\* process_extracted_text(input_text)
Parse ==
    /\ pc = "parse"
    /\ processed' = process_extracted_text(input_text)
    /\ pc' = IF processed'.tag = "IndexError" THEN "raised" ELSE "parsed"
    /\ UNCHANGED <<input_text, delay>>
    /\ UNCHANGED orchestratorVars
    /\ UNCHANGED collectVars
    /\ UNCHANGED scrapeVars

Next == CollectStart \/ ExpandStep \/ ExtractJoined \/ Deduplicate \/ ScrapeStep \/ ZipFilter

Spec == Init /\ [][Next]_vars

NextExpand == ExpandStep

SpecExpand == InitExpand /\ [][NextExpand]_vars

NextScrape == ScrapeStep

SpecScrape == InitScrape /\ [][NextScrape]_vars

NextParse == Parse

SpecParse == InitParse /\ [][NextParse]_vars

SpecDelay == InitDelay /\ [][Next]_vars

(***************************************************************************)
(* Properties.                                                             *)
(***************************************************************************)
BracketsMatch(s) == Count(s, "(") = Count(s, ")") /\ Count(s, "[") = Count(s, "]")

\* a is b with some of its elements left out.
RECURSIVE IsSubsequence(_, _)
IsSubsequence(a, b) ==
    IF Len(a) = 0 THEN TRUE
    ELSE IF Len(b) = 0 THEN FALSE
    ELSE IF Head(a) = Head(b) THEN IsSubsequence(Tail(a), Tail(b))
    ELSE IsSubsequence(a, Tail(b))

\* C1: every pair {clause, text} of the result is matched: the clause
\* parses to a record, and the text is the text of the file of that record.
C1_PairsMatch ==
    pc = "done" =>
        \A k \in 1..Len(output_list) :
            /\ process_extracted_text(output_list[k].clause).tag = "dict"
            /\ output_list[k].text =
                   Str(GreekText(get_Dir(process_extracted_text(output_list[k].clause))))

\* C2: when scrape_list has returned, it has made as many attempts as there
\* are distinct records among extracted_Dicts, one for each of them.
C2_OneFetchPerRecord ==
    pc = "done" =>
        /\ Len(calls) = Cardinality(Range(extracted_Dicts))
        /\ \A d \in Range(extracted_Dicts) :
               Cardinality({i \in 1..Len(calls) : calls[i].path = get_Dir(d)}) = 1

\* Two citations worded differently have the same record, and there is a
\* second record that differs from it.
C2_Witness ==
    /\ pc = "done"
    /\ Cardinality(Range(extracted_Dicts)) >= 2
    /\ \E i, j \in 1..Len(extracted_text) :
           /\ extracted_text[i] # extracted_text[j]
           /\ process_extracted_text(extracted_text[i]).tag = "dict"
           /\ process_extracted_text(extracted_text[i])
                  = process_extracted_text(extracted_text[j])

\* The position in joined of the first character of all_expanded[k].
RECURSIVE ClauseStart(_)
ClauseStart(k) ==
    IF k = 1 THEN 1 ELSE ClauseStart(k - 1) + Len(all_expanded[k - 1]) + 1

\* Match m of range_pattern in joined takes characters of all_expanded[k].
Overlaps(m, k) ==
    /\ m.start <= ClauseStart(k) + Len(all_expanded[k]) - 1
    /\ m.end - 1 >= ClauseStart(k)

\* C3: a clause that ends in " Failed" is excluded downstream: extract finds
\* no citation in the text of such a clause, so that nothing of it is
\* parsed, fetched or returned, and its sentinel is in no citation.
C3_FailedExcluded ==
    pc = "done" =>
        \A k \in {j \in 1..Len(all_expanded) : EndsWith(all_expanded[j], " Failed")} :
            \A m \in Range(finditer(joined)) : ~Overlaps(m, k)

\* C4: in scrape_list, output and the attempts made go record by record
\* through dict_list: attempt i is for record i, and output[i] is None
\* exactly if that attempt raised; no exception leaves the loop.
C4_FailureIsolation ==
    /\ pc = "scrape"
    /\ Len(output) = Len(calls)
    /\ Len(output) <= Len(dict_list)
    /\ \A i \in 1..Len(output) :
           /\ calls[i].path = get_Dir(dict_list[i])
           /\ (output[i] = NoneStr) <=> (calls[i].outcome = "raise")

\* The first record raised, and the second was read after it.
C4_Witness ==
    /\ Len(dict_list) = 2
    /\ Len(output) = 2
    /\ output[1] = NoneStr
    /\ output[2] # NoneStr
    /\ output[2] # Str("")

\* Citations of four parts: collection, Roman volume, identifier.lineRange, date.
WellFormed == {"P.OXY. IV 123.10-12 (AD 100)", "BGU II 45.1-3 (AD 200)"}

\* The part of a token after its first dot.
AfterDot(token) == Slice(token, FindFirst(token, 1, {"."}) + 1, Len(token))

\* The record the tokens of a citation of four parts stand for.
RecordOf(tokens) ==
    Dict(Collection(tokens[1]), fromRoman(tokens[2]).val,
         Split(tokens[3], ".")[1], AfterDot(tokens[3]))

\* C5: expand leaves a well-formed citation of four parts as it is, and
\* the record parsed from the result has the collection, the volume, the
\* identifier and the line range of the citation.
C5_FourPartParse ==
    \A k \in 1..Len(all_expanded) :
        references[k] \in WellFormed =>
            /\ all_expanded[k] = references[k]
            /\ process_extracted_text(all_expanded[k]) = RecordOf(SplitWS(references[k]))

\* C6: a continuation that gives a document number and a line range,
\* expanded after a citation of four parts, keeps that citation's
\* collection and takes its identifier and line range from the
\* continuation; and in the sequence of the specification's example the
\* second citation resolves to collection "p. oxy." and identifier "125".
C6_ContextPropagation ==
    /\ (/\ Len(all_expanded) = 2
        /\ references[1] \in WellFormed
        /\ references[2] = "125.5-7 (AD 100)")
       => /\ previous_collection = SplitWS(references[1])[1]
          /\ previous_identifier = "125"
          /\ process_extracted_text(all_expanded[2]).identifier = "125"
          /\ process_extracted_text(all_expanded[2]).lines = "5-7"
    /\ (/\ Len(all_expanded) = 2
        /\ references = <<"P. OXY. 123. 10-12 (AD 100)", "125. 5-7 (AD 100)">>)
       => /\ LowerStr(previous_collection) = "p. oxy."
          /\ previous_identifier = "125"

\* C7: no pair of the result has a text that is None or empty, and the
\* clauses of the result are clauses of extracted_text in their order.
C7_Filtered ==
    pc = "done" =>
        /\ \A k \in 1..Len(output_list) :
               output_list[k].text # NoneStr /\ output_list[k].text # Str("")
        /\ IsSubsequence([k \in 1..Len(output_list) |-> output_list[k].clause],
                         extracted_text)

\* Two pairs were kept and a third one was dropped.
C7_Witness ==
    /\ pc = "done"
    /\ Len(output_list) >= 2
    /\ \E i \in 1..Len(output) : output[i] = NoneStr \/ output[i] = Str("")

\* C8: every reference extract_papyri_references returns has as many "("
\* as ")" and as many "[" as "]"; "P. OXY. (123" is not among them.
C8_Balanced ==
    \A i \in 1..Len(references) :
        /\ BracketsMatch(references[i])
        /\ references[i] # "P. OXY. (123"
        /\ references[i] # "P. OXY. (123;"

\* A match with unbalanced brackets was found and left out, and another
\* match was split into its ranges.
C8_Witness ==
    /\ pc = "expand"
    /\ references # <<>>
    /\ \E i \in 1..Len(all_refs) : ~BracketsMatch(all_refs[i])
    /\ \E i \in 1..Len(all_refs) : Len(CleanText_extract(all_refs[i] \o ";")) > 1

\* C9: splitting an entry the range splitter has returned gives that entry
\* alone, or nothing.
C9_SplitIdempotent ==
    \A i \in 1..Len(all_refs) :
        \A e \in Range(CleanText_extract(all_refs[i] \o ";")) :
            CleanText_extract(e) \in {<<e>>, <<>>}

\* C10: the parser gives a citation whose volume token is the numeral of n
\* a record with number n ("IV" gives 4), and gives None, without raising,
\* for a citation whose volume token is no numeral ("IIII").
C10_RomanVolume ==
    pc # "parse" =>
        /\ \A c \in ParserCollections :
               /\ \A n \in VolumeNumbers :
                      input_text = ParserInput(c, toRoman(n)) =>
                          /\ pc = "parsed"
                          /\ processed.tag = "dict"
                          /\ processed.number = n
               /\ \A v \in InvalidVolumes :
                      input_text = ParserInput(c, v) =>
                          pc = "parsed" /\ processed = None
        /\ input_text = ParserInput("P.OXY.", "IV") => processed.number = 4
        /\ input_text = ParserInput("P.OXY.", "IIII") => processed = None

\* The parser has returned for a citation whose volume token is "IIII".
C10_Witness ==
    /\ pc = "parsed"
    /\ input_text = ParserInput("P.OXY.", "IIII")

\* C11: every record the parser returns has a collection and an identifier
\* that are not empty, and a number of at least 1.
C11_RecordInvariant ==
    (pc = "parsed" /\ processed.tag = "dict") =>
        /\ processed.collection # ""
        /\ processed.identifier # ""
        /\ processed.number >= 1

RECURSIVE SumSeq(_)
SumSeq(q) == IF Len(q) = 0 THEN 0 ELSE Head(q) + SumSeq(Tail(q))

\* C12, as stated: a document in which extract finds N citations
\* accumulates a sleep of at least N times the delay.
C12_SleepPerCitation ==
    pc = "done" => SumSeq(slept) >= Len(extracted_text) * delay

\* C12, amended: every attempt, raised or not, is followed by one sleep of
\* the delay, so that a run sleeps the delay once for each distinct record
\* (not once for each citation).
C12_SleepPerAttempt ==
    /\ Len(slept) = Len(calls)
    /\ \A i \in 1..Len(slept) : slept[i] = delay
    /\ pc = "done" => SumSeq(slept) = Cardinality(Range(extracted_Dicts)) * delay

\* A run with a positive delay, an attempt that raised and one that did
\* not, and more citations than attempts.
C12_Witness ==
    /\ pc = "done"
    /\ delay >= 1
    /\ \E i \in 1..Len(calls) : calls[i].outcome = "raise"
    /\ \E i \in 1..Len(calls) : calls[i].outcome = "text"
    /\ Len(extracted_text) > Len(calls)

ExpandWith(ref, ctx) ==
    expand(StripChars(ref, {";"}), ctx.collection, ctx.volume, ctx.identifier)

\* What the k-th expansion returns when each expansion is given what the
\* one before it returned, the first one the defaults of collect_expanded.
RECURSIVE ContextAfter(_, _)
ContextAfter(refs, k) ==
    IF k = 0
    THEN Expanded("", "", "", "")
    ELSE ExpandWith(refs[k], ContextAfter(refs, k - 1))

\* The context the loop holds, and the clause it appended last, are those of r.
ThreadedAs(r) ==
    /\ previous_collection = r.collection
    /\ previous_volume = r.volume
    /\ previous_identifier = r.identifier
    /\ Len(all_expanded) >= 1 => all_expanded[Len(all_expanded)] = r.clause

\* An iteration that appended a " Failed" clause left the context alone.
FailedKeepsContext ==
    (/\ Len(all_expanded') = Len(all_expanded) + 1
     /\ EndsWith(all_expanded'[Len(all_expanded')], " Failed"))
        => UNCHANGED <<previous_collection, previous_volume, previous_identifier>>

\* C14: the context given to the expansion of the i-th reference is the one
\* the expansion of the (i-1)-th returned, from the initial values on, with
\* no reset in between; and a " Failed" expansion changes no context field.
C14_ContextThreaded ==
    /\ [](pc = "expand" => ThreadedAs(ContextAfter(references, Len(all_expanded))))
    /\ [][FailedKeepsContext]_vars

\* A malformed reference has been expanded after one that set the context.
C14_Witness ==
    /\ pc = "expand"
    /\ Len(all_expanded) = 2
    /\ EndsWith(all_expanded[2], " Failed")
    /\ previous_collection # ""
    /\ previous_volume # ""
    /\ previous_identifier # ""

\* The parts expand looks at: those of smart_split, less a final note.
ClauseParts(c) == DropNote(CleanText_smart_split(StripChars(c, {";"}), " "))

\* A reference of two parts: ranges alone, or a number and ranges.
IsContinuation(ref) == Len(ClauseParts(ref)) = 2

\* A clause with a collection, a volume, a number and a date.
IsFull(c) == Len(ClauseParts(c)) = 4

\* The last full clause expanded before the k-th, 0 if there is none.
LatestFull(k) ==
    IF \E j \in 1..(k - 1) : IsFull(all_expanded[j])
    THEN Max({j \in 1..(k - 1) : IsFull(all_expanded[j])})
    ELSE 0

\* Parts p have the collection and volume of parts q, and its identifier too
\* where the identifier was filled in.
SameSource(p, q, filled) ==
    /\ p[1] = q[1]
    /\ p[2] = q[2]
    /\ filled => Split(p[3], ".")[1] = Split(q[3], ".")[1]

\* C15: what expand fills into a 2-part continuation, the collection, the
\* volume and (where it is missing) the identifier, all comes from the full
\* citation last expanded before it, never a new collection with a volume
\* or identifier of an earlier citation.
C15_CoherentInheritance ==
    \A k \in 1..Len(all_expanded) :
        (IsContinuation(references[k]) /\ LatestFull(k) # 0) =>
            SameSource(ClauseParts(all_expanded[k]),
                       ClauseParts(all_expanded[LatestFull(k)]),
                       Len(Split(ClauseParts(references[k])[1], ".")) = 1)
====
